---- MODULE Spec2Model ----
(***************************************************************************)
(* A model of nicegui_blackjack (src/src/nicegui_blackjack/blackjack.py):  *)
(* the Game object, its Player and Dealer hands, the deck, and the         *)
(* coroutines Player.act and Game.dealer_turn/Dealer.act, which suspend at *)
(* asyncio.sleep and are resumed by the event loop one at a time.          *)
(***************************************************************************)
EXTENDS Integers, Sequences, FiniteSets, Bags, TLC

(***************************************************************************)
(* Program constants.                                                      *)
(***************************************************************************)
POINT21 == 21

LOWER == 17

(***************************************************************************)
(* Bounds of the model.                                                    *)
(***************************************************************************)
\* calls of Game.start in one behaviour
MaxRounds == 2

\* cards the player draws in one round
MaxDraws == 2

\* cards of a hand built card by card (SpecPoint)
MaxHand == 4

\* coroutines suspended at a sleep at the same time
MaxTasks == 2

\* a dealer turn is only started while the dealer holds at most this many cards
MaxDealerCards == 3

VARIABLES
    nums,       \* Game.nums: the deck, popped from the end
    player,     \* Game.player.cards: << [num, class_] >>, <<>> before the first start
    dealer,     \* Game.dealer.cards, <<>> before the first start
    ask_draw,   \* Game.ask_draw
    message,    \* Game.message
    tasks,      \* the coroutines suspended at a sleep (a bag of records)
    rounds,     \* calls of Game.start so far
    harness,    \* where test_game_build (tests/test_game.py) is: "off" when
                \* it is not what runs the game
    case_nums   \* Case.nums of test_game_build: the deck in draw order

\* the Game and the event loop
gvars == <<nums, player, dealer, ask_draw, message, tasks, rounds>>

\* the test function
hvars == <<harness, case_nums>>

vars == <<nums, player, dealer, ask_draw, message, tasks, rounds, harness, case_nums>>

(***************************************************************************)
(* Card                                                                    *)
(***************************************************************************)
Min(a, b) == IF a < b THEN a ELSE b

Reverse(s) == [i \in 1..Len(s) |-> s[Len(s) + 1 - i]]

Rank(num) == (num % 13) + 1

Card(num, class_) == [num |-> num, class_ |-> class_]

opened(card) == card.class_ = "opened"

\* Card.open
open(card) == [card EXCEPT !.class_ = "opened"]

\* Card.point
CardPoint(card) == IF opened(card) THEN Min(10, Rank(card.num)) ELSE 0

(***************************************************************************)
(* Owner                                                                   *)
(***************************************************************************)
\* Owner.__init__: the first opened_num cards are opened
Owner(ns, opened_num) ==
    [i \in 1..Len(ns) |-> Card(ns[i], IF i - 1 < opened_num THEN "opened" ELSE "")]

\* Owner.add_card
add_card(cards, num, class_) == Append(cards, Card(num, class_))

RECURSIVE SumPoints(_)
SumPoints(cards) ==
    IF cards = <<>> THEN 0 ELSE CardPoint(Head(cards)) + SumPoints(Tail(cards))

\* AceStep with the test of line 133 made strict
AceStepStrict(cd, point_) ==
    IF Rank(cd.num) = 1 /\ point_ + 10 < POINT21 THEN point_ + 10 ELSE point_

\* one pass of the loop "for cd in cards" of Owner._point
AceStep(cd, point_) ==
    IF Rank(cd.num) = 1 /\ point_ + 10 <= POINT21 THEN point_ + 10 ELSE point_

RECURSIVE AceLoop(_, _)
AceLoop(cards, point_) ==
    IF cards = <<>> THEN point_
    ELSE AceLoop(Tail(cards), AceStep(Head(cards), point_))

\* Owner._point
Point_(cards) == AceLoop(cards, SumPoints(cards))

\* Owner.point
point(cards) == Point_(SelectSeq(cards, opened))

(***************************************************************************)
(* Coroutines suspended at a sleep.                                        *)
(*   kind "act":  Player.act at line 187; self is the game's player when   *)
(*                cur, else a Player that Game.start has replaced, whose   *)
(*                hand no longer changes: at21 is its point() >= POINT21   *)
(*   kind "deal": Game.dealer_turn inside Dealer.act; player_point is the  *)
(*                local of dealer_turn, i the index (from 1) of the card   *)
(*                the loop of lines 168-173 is at, n the last index of     *)
(*                its list, pc "flip" at line 170 and "shown" at the last  *)
(*                line-172 sleep; cur tells whether the Dealer that acts   *)
(*                is still the game's dealer; via is the caller of         *)
(*                dealer_turn ("stand": the No button or the caller of the *)
(*                method, "act": Player.act line 190)                      *)
(***************************************************************************)
ActTask == [kind |-> "act", cur |-> TRUE, at21 |-> FALSE, player_point |-> 0,
            i |-> 0, n |-> 0, pc |-> "sleep", via |-> "click"]

DealTask(player_point, i, n, via) ==
    [kind |-> "deal", cur |-> TRUE, at21 |-> FALSE, player_point |-> player_point,
     i |-> i, n |-> n, pc |-> "flip", via |-> via]

Pending == BagToSet(tasks)

One(t) == SetToBag({t})

(***************************************************************************)
(* Game                                                                    *)
(***************************************************************************)
started == dealer # <<>>

\* Message with the comparison of line 269 made non-strict
MessageLe(player_point, dealer_point) ==
    IF player_point <= POINT21
    THEN IF dealer_point > POINT21 \/ dealer_point <= player_point
         THEN "You win."
         ELSE IF player_point = dealer_point THEN "Draw." ELSE "You loss."
    ELSE "You loss."

\* the message of Game.dealer_turn, lines 262-270
Message(player_point, dealer_point) ==
    IF player_point <= POINT21
    THEN IF player_point = dealer_point THEN "Draw."
         ELSE IF dealer_point > POINT21 \/ dealer_point < player_point
              THEN "You win."
              ELSE "You loss."
    ELSE "You loss."

\* Game.change_ask
change_ask(ask, msg) ==
    /\ ask_draw' = ask
    /\ message' = IF ask THEN "Draw card?" ELSE msg

RECURSIVE DrawLoop(_, _)
\* DrawLoop drawing at LOWER too
DrawLoopLe(cards, deck) ==
    IF Point_(cards) <= LOWER
    THEN IF deck = <<>>
         THEN [cards |-> cards, nums |-> deck, raised |-> TRUE]
         ELSE DrawLoop(Append(cards, Card(deck[Len(deck)], "opened")),
                       SubSeq(deck, 1, Len(deck) - 1))
    ELSE [cards |-> cards, nums |-> deck, raised |-> FALSE]

\* the while loop of Dealer.act, lines 162-163: raised when Game.pop finds
\* the deck empty
DrawLoop(cards, deck) ==
    IF Point_(cards) < LOWER
    THEN IF deck = <<>>
         THEN [cards |-> cards, nums |-> deck, raised |-> TRUE]
         ELSE DrawLoop(Append(cards, Card(deck[Len(deck)], "opened")),
                       SubSeq(deck, 1, Len(deck) - 1))
    ELSE [cards |-> cards, nums |-> deck, raised |-> FALSE]

\* dealer_turn without the test of line 264: the dealer plays whatever the
\* player's total is
dealer_turn_always(rest, via, ask0, msg0) ==
    LET player_point == point(player)
        r == DrawLoop([k \in 1..Len(dealer) |-> Card(dealer[k].num, "opened")], nums)
    IN  IF r.raised
        THEN /\ nums' = r.nums
             /\ ask_draw' = ask0
             /\ message' = msg0
             /\ tasks' = rest
             /\ UNCHANGED <<player, dealer, rounds>>
        ELSE /\ nums' = r.nums
             /\ dealer' = dealer \o
                   [k \in 1..(Len(r.cards) - 2) |-> Card(r.cards[k + 2].num, "hidden")]
             /\ change_ask(FALSE, "")
             /\ tasks' = rest (+) One(DealTask(player_point, 2, Len(dealer'), via))
             /\ UNCHANGED <<player, rounds>>

\* Game.dealer_turn up to its first suspension (or to its end); rest is the
\* bag of the other suspended coroutines, ask0 and msg0 what the caller left
\* in ask_draw and message
dealer_turn(rest, via, ask0, msg0) ==
    LET player_point == point(player)
        r == DrawLoop([k \in 1..Len(dealer) |-> Card(dealer[k].num, "opened")], nums)
    IN  IF player_point <= POINT21
        THEN IF r.raised
             THEN /\ nums' = r.nums
                  /\ ask_draw' = ask0
                  /\ message' = msg0
                  /\ tasks' = rest
                  /\ UNCHANGED <<player, dealer, rounds>>
             ELSE /\ nums' = r.nums
                  /\ dealer' = dealer \o
                        [k \in 1..(Len(r.cards) - 2) |-> Card(r.cards[k + 2].num, "hidden")]
                  /\ change_ask(FALSE, "")
                  /\ tasks' = rest (+) One(DealTask(player_point, 2, Len(dealer'), via))
                  /\ UNCHANGED <<player, rounds>>
        ELSE /\ change_ask(FALSE, Message(player_point, 0))
             /\ tasks' = rest
             /\ UNCHANGED <<nums, player, dealer, rounds>>

Init ==
    /\ nums = <<>>
    /\ player = <<>>
    /\ dealer = <<>>
    /\ ask_draw = FALSE
    /\ message = ""
    /\ tasks = EmptyBag
    /\ rounds = 0
    /\ harness = "off"
    /\ case_nums = <<>>

\* Game.start replaces the Player (newPlayer) and the Dealer (newDealer): a
\* coroutine bound to the replaced object keeps running on it
Stale(t, newPlayer, newDealer) ==
    IF t.kind = "act" /\ t.cur /\ newPlayer
    THEN [t EXCEPT !.cur = FALSE, !.at21 = (point(player) >= POINT21)]
    ELSE IF t.kind = "deal" /\ t.cur /\ newDealer
         THEN [t EXCEPT !.cur = FALSE]
         ELSE t

RECURSIVE StaleBag(_, _, _)
StaleBag(S, newPlayer, newDealer) ==
    IF S = {} THEN EmptyBag
    ELSE LET t == CHOOSE x \in S : TRUE
         IN  [x \in {Stale(t, newPlayer, newDealer)} |-> CopiesIn(t, tasks)]
                (+) StaleBag(S \ {t}, newPlayer, newDealer)

\* start adding the cards it deals to the hands it finds
start_append(deck) ==
    /\ rounds < MaxRounds
    /\ rounds' = rounds + 1
    /\ LET k == Len(deck)
       IN  IF k < 2
           THEN /\ nums' = <<>>
                /\ UNCHANGED <<player, dealer, ask_draw, message, tasks>>
           ELSE IF k < 4
           THEN /\ nums' = <<>>
                /\ player' = player \o Owner(<<deck[k], deck[k - 1]>>, 2)
                /\ UNCHANGED <<dealer, ask_draw, message, tasks>>
           ELSE /\ nums' = SubSeq(deck, 1, k - 4)
                /\ player' = player \o Owner(<<deck[k], deck[k - 1]>>, 2)
                /\ dealer' = dealer \o Owner(<<deck[k - 2], deck[k - 3]>>, 1)
                /\ change_ask(TRUE, "Click Card")
                /\ UNCHANGED tasks

\* Game.start(nums=deck); a deck of fewer than four cards makes a pop raise
\* after self.nums (and, from two cards on, self.player) has been assigned
start(deck) ==
    /\ rounds < MaxRounds
    /\ rounds' = rounds + 1
    /\ LET k == Len(deck)
       IN  IF k < 2
           THEN /\ nums' = <<>>
                /\ UNCHANGED <<player, dealer, ask_draw, message, tasks>>
           ELSE IF k < 4
           THEN /\ nums' = <<>>
                /\ player' = Owner(<<deck[k], deck[k - 1]>>, 2)
                /\ tasks' = StaleBag(Pending, TRUE, FALSE)
                /\ UNCHANGED <<dealer, ask_draw, message>>
           ELSE /\ nums' = SubSeq(deck, 1, k - 4)
                /\ player' = Owner(<<deck[k], deck[k - 1]>>, 2)
                /\ dealer' = Owner(<<deck[k - 2], deck[k - 3]>>, 1)
                /\ change_ask(TRUE, "Click Card")
                /\ tasks' = StaleBag(Pending, TRUE, TRUE)

\* Game.player_turn: Player.draw, then change_ask(ask_draw=False). On an
\* empty deck Game.pop raises before anything is assigned: no step.
player_turn ==
    /\ started
    /\ nums # <<>>
    /\ Len(player) < 2 + MaxDraws
    /\ player' = add_card(player, nums[Len(nums)], "")
    /\ nums' = SubSeq(nums, 1, Len(nums) - 1)
    /\ change_ask(FALSE, "Click Card")
    /\ UNCHANGED <<dealer, tasks, rounds>>

\* Player.act up to its sleep (lines 186-187): the last card is opened
act ==
    /\ started
    /\ BagCardinality(tasks) < MaxTasks
    /\ Len(dealer) <= MaxDealerCards
    /\ player' = [player EXCEPT ![Len(player)] = open(@)]
    /\ tasks' = tasks (+) One(ActTask)
    /\ UNCHANGED <<nums, dealer, ask_draw, message, rounds>>

\* act_resume going on to the dealer's turn only above POINT21
act_resume_above(t) ==
    /\ t.kind = "act"
    /\ LET rest == tasks (-) One(t)
           above21 == IF t.cur THEN point(player) > POINT21 ELSE t.at21
       IN  IF above21
           THEN dealer_turn(rest, "act", TRUE, "Draw card?")
           ELSE /\ change_ask(TRUE, "Click Card")
                /\ tasks' = rest
                /\ UNCHANGED <<nums, player, dealer, rounds>>

\* Player.act resumed after its sleep (lines 188-190)
act_resume(t) ==
    /\ t.kind = "act"
    /\ LET rest == tasks (-) One(t)
           at21 == IF t.cur THEN point(player) >= POINT21 ELSE t.at21
       IN  IF at21
           THEN dealer_turn(rest, "act", TRUE, "Draw card?")
           ELSE /\ change_ask(TRUE, "Click Card")
                /\ tasks' = rest
                /\ UNCHANGED <<nums, player, dealer, rounds>>

\* Game.dealer_turn called by the No button or directly
stand ==
    /\ started
    /\ BagCardinality(tasks) < MaxTasks
    /\ Len(dealer) <= MaxDealerCards
    /\ dealer_turn(tasks, "stand", ask_draw, message)

\* Dealer.act resumed at line 171: the card is opened; the sleep of line 172
\* and, when a card follows, the sleep of line 170 are one suspension
Dealer_open(t) ==
    /\ t.kind = "deal"
    /\ t.pc = "flip"
    /\ dealer' = IF t.cur THEN [dealer EXCEPT ![t.i] = open(@)] ELSE dealer
    /\ tasks' = (tasks (-) One(t)) (+)
                One(IF t.i < t.n THEN [t EXCEPT !.i = t.i + 1] ELSE [t EXCEPT !.pc = "shown"])
    /\ UNCHANGED <<nums, player, ask_draw, message, rounds>>

\* dealer_turn_end without the change_ask of line 271
dealer_turn_end_silent(t) ==
    /\ t.kind = "deal"
    /\ t.pc = "shown"
    /\ tasks' = tasks (-) One(t)
    /\ UNCHANGED <<nums, player, dealer, ask_draw, message, rounds>>

\* Dealer.act returns and Game.dealer_turn ends (lines 266-271)
dealer_turn_end(t) ==
    /\ t.kind = "deal"
    /\ t.pc = "shown"
    /\ change_ask(FALSE, Message(t.player_point, point(dealer)))
    /\ tasks' = tasks (-) One(t)
    /\ UNCHANGED <<nums, player, dealer, rounds>>

(***************************************************************************)
(* Decks.  A deck is written in draw order and handed to Game.start        *)
(* reversed, as the tests do.                                              *)
(***************************************************************************)
\* after the four cards dealt: a five, then tens for every further draw of
\* the player and the two cards the dealer needs at most
Fill(n) == <<4>> \o [i \in 1..n |-> 12]

\* the two cards of a hand (A = 0, 6 = 5, K = 12)
PlayerTops == { <<12, 0>>, <<5, 12>>, <<5, 5>>, <<12, 12>> }

DealerTops == { <<12, 5>>, <<12, 12>>, <<0, 5>>, <<0, 0>> }

\* explicit decks that cannot run out within the bounds: Game.start deals
\* the player's two cards first, then the dealer's two
Decks ==
    {Reverse(p \o d \o Fill(MaxDraws + 1)) : p \in PlayerTops, d \in DealerTops}

(***************************************************************************)
(* One round: Game.start once, then the methods of Game called in any      *)
(* order and at any time, as a caller of the package may; the event loop   *)
(* resumes the suspended coroutines in any order.                          *)
(***************************************************************************)
StartExplicit ==
    /\ ~started
    /\ \E deck \in Decks : start(deck)
    /\ UNCHANGED hvars

PlayerTurn == player_turn /\ UNCHANGED hvars

Act == act /\ UNCHANGED hvars

Stand == stand /\ UNCHANGED hvars

ActResume == (\E t \in Pending : act_resume(t)) /\ UNCHANGED hvars

DealerOpen == (\E t \in Pending : Dealer_open(t)) /\ UNCHANGED hvars

DealerTurnEnd == (\E t \in Pending : dealer_turn_end(t)) /\ UNCHANGED hvars

Next ==
    \/ StartExplicit
    \/ PlayerTurn
    \/ Act
    \/ Stand
    \/ ActResume
    \/ DealerOpen
    \/ DealerTurnEnd

Spec == Init /\ [][Next]_vars

\* the event loop resumes a dealer turn whose sleep has ended
DealerResume == DealerOpen \/ DealerTurnEnd

SpecLive == Spec /\ WF_vars(DealerResume)

(***************************************************************************)
(* One round played through the page Game.build makes: the Yes and No      *)
(* buttons exist only when ask_draw was true at the last build (every      *)
(* change_ask builds), and a click on a card the player drew calls         *)
(* Player.act (Card.build binds card.click, which Player.draw sets).       *)
(***************************************************************************)
Yes == ask_draw /\ PlayerTurn

No == ask_draw /\ Stand

CardClick == Len(player) > 2 /\ Act

NextUI ==
    \/ StartExplicit
    \/ Yes
    \/ No
    \/ CardClick
    \/ ActResume
    \/ DealerOpen
    \/ DealerTurnEnd

SpecUI == Init /\ [][NextUI]_vars

(***************************************************************************)
(* Several rounds: Game.start (the New Game button, or the method) at any  *)
(* time, also while coroutines of the round before are suspended.          *)
(***************************************************************************)
StartAgain == (\E deck \in Decks : start(deck)) /\ UNCHANGED hvars

NextRestart ==
    \/ StartAgain
    \/ PlayerTurn
    \/ Act
    \/ Stand
    \/ ActResume
    \/ DealerOpen
    \/ DealerTurnEnd

SpecRestart == Init /\ [][NextRestart]_vars

(***************************************************************************)
(* The phases of a round.                                                  *)
(***************************************************************************)
Outcomes == {"You win.", "You loss.", "Draw."}

\* a dealer turn has begun and not ended
DealerPlaying == \E t \in Pending : t.kind = "deal" /\ t.cur

PlayerDeciding == started /\ ask_draw

\* an outcome is shown and no coroutine is left
Resolved == started /\ ~ask_draw /\ message \in Outcomes /\ tasks = EmptyBag

\* the total of a hand with every card counted as face-up
Whole(cards) == point([k \in 1..Len(cards) |-> open(cards[k])])

(***************************************************************************)
(* C1                                                                      *)
(***************************************************************************)
\* the outcome rule as the specification words it
Rule(p, d) ==
    IF p > 21 THEN "You loss."
    ELSE IF d = p THEN "Draw."
    ELSE IF d > 21 \/ d < p THEN "You win."
    ELSE "You loss."

Taken == [j \in 1..(Len(nums) - Len(nums')) |-> Card(nums[Len(nums) + 1 - j], "opened")]

\* C4: a step in which the dealer takes cards from the deck takes each of
\* them while the whole hand (the hole card counted, and the cards taken so
\* far) totals less than 17; when the whole hand totals 17 or more no step
\* but the player's draw changes the deck, and a turn that begins with two
\* cards at 17 or more adds no card to the hand.
C4_DealerStandsAt17 ==
    [][ started /\ player' = player =>
          /\ \A j \in 1..Len(Taken) : Whole(dealer \o SubSeq(Taken, 1, j - 1)) < 17
          /\ Whole(dealer) >= 17 => nums' = nums
          /\ Whole(dealer) >= 17 /\ Len(dealer) = 2 => Len(dealer') = 2 ]_vars

\* a dealer turn that began on a soft 17 (ace and six) has ended: the hole
\* card is revealed and no card has left the deck
C4_Witness ==
    /\ Resolved
    /\ Len(player) = 2
    /\ dealer = <<Card(0, "opened"), Card(5, "opened")>>
    /\ Len(nums) = MaxDraws + 2

(***************************************************************************)
(* C5                                                                      *)
(***************************************************************************)
\* a dealer turn that Player.act called is suspended
ActTurnPending == \E u \in Pending : u.kind = "deal" /\ u.via = "act"

OutcomeShown == started /\ ~ask_draw /\ message \in Outcomes

\* C5: when Player.act ends its sleep with the player's total at 21 or more,
\* the same step calls the dealer's turn: above 21 the outcome is set at
\* once, at 21 the dealer's turn is suspended in Dealer.act with ask_draw
\* false, and with the coroutines resumed (no stand is needed) an outcome is
\* shown; below 21 the step leaves ask_draw true and "Draw card?".
C5_FlipDecides ==
    /\ [][ \A t \in Pending : act_resume(t) =>
             IF point(player) > 21
             THEN ~ask_draw' /\ message' = "You loss." /\ tasks' = tasks (-) One(t)
             ELSE IF point(player) = 21
             THEN /\ ~ask_draw'
                  /\ \E u \in BagToSet(tasks') :
                        /\ u.kind = "deal" /\ u.via = "act" /\ u.player_point = 21
                        /\ tasks' = (tasks (-) One(t)) (+) One(u)
             ELSE /\ ask_draw' /\ message' = "Draw card?"
                  /\ tasks' = tasks (-) One(t)
                  /\ UNCHANGED <<nums, player, dealer>> ]_vars
    /\ ActTurnPending ~> OutcomeShown

\* the flip of a drawn card made 21 of three cards and the dealer's turn
\* it called is suspended
C5_Witness ==
    /\ ActTurnPending
    /\ Len(player) = 3 /\ point(player) = 21
    /\ ~ask_draw

(***************************************************************************)
(* C6                                                                      *)
(***************************************************************************)
\* C6: once an outcome is shown with ask_draw false, no step (Game.start is
\* not called again in one round) changes ask_draw, the message, a hand or
\* the deck.
C6_ResolvedIsTerminal ==
    [][ OutcomeShown => UNCHANGED <<ask_draw, message, player, dealer, nums>> ]_vars

(***************************************************************************)
(* C7                                                                      *)
(***************************************************************************)
\* C7: Game.player_turn called while the dealer is playing or after the
\* outcome is shown leaves both hands and the deck as they were.
C7_DrawAfterStandRejected ==
    [][ (DealerPlaying \/ OutcomeShown) /\ PlayerTurn
          => UNCHANGED <<player, dealer, nums>> ]_vars

(***************************************************************************)
(* C8                                                                      *)
(***************************************************************************)
\* C8: while a dealer turn is in progress ask_draw stays false, the player's
\* hand does not change, and the deck changes only by the cards the dealer
\* takes.
C8_PlayerCannotActDuringDealerTurn ==
    [][ DealerPlaying =>
          /\ ~ask_draw /\ ~ask_draw'
          /\ player' = player
          /\ nums' # nums => Len(dealer') - Len(dealer) >= Len(nums) - Len(nums') ]_vars

(***************************************************************************)
(* C9                                                                      *)
(***************************************************************************)
Count(b) == IF b THEN 1 ELSE 0

\* C9: after start the game is in exactly one of the phases PlayerDeciding
\* (ask_draw true), DealerPlaying (a dealer turn begun and not ended) and
\* Resolved (an outcome message set).
C9_ExactlyOnePhase ==
    started =>
      Count(ask_draw) + Count(DealerPlaying) + Count(message \in Outcomes) = 1

(***************************************************************************)
(* C10                                                                     *)
(***************************************************************************)
\* C10 as claimed: whenever the game awaits the player's decision and no
\* coroutine is suspended, the player's total is below 21.
C10_Below21WhenAsked ==
    started /\ ask_draw /\ tasks = EmptyBag => point(player) < 21

\* C10 amended: a Player.act that ends its sleep and leaves ask_draw true
\* flipped a card of a Player whose total is below 21 (at 21 or more the
\* same step begins the dealer's turn and ask_draw is false).  Game.start
\* is not covered: it leaves ask_draw true whatever it dealt.
C10_FlipLeavesBelow21 ==
    [][ \A t \in Pending : act_resume(t) /\ ask_draw' =>
          IF t.cur THEN point(player') < 21 ELSE ~t.at21 ]_vars

\* the flip of a drawn card has ended below 21 after a deal of 21 in two
\* cards: the game awaits the decision with three cards face-up
C10_Witness ==
    /\ started /\ ask_draw /\ tasks = EmptyBag
    /\ Len(player) = 3
    /\ \A i \in 1..3 : opened(player[i])
    /\ point(SubSeq(player, 1, 2)) = 21
    /\ point(player) < 21

(***************************************************************************)
(* C11                                                                     *)
(***************************************************************************)
\* a step in which Game.dealer_turn is called (by the caller of the method
\* or by a Player.act that ends its sleep at 21 or more)
DealerTurnCalled ==
    \/ stand
    \/ \E t \in Pending :
          act_resume(t) /\ (IF t.cur THEN point(player) >= POINT21 ELSE t.at21)

C12_DealerHandRevealed ==
    [][ \A t \in Pending : t.cur =>
          /\ dealer_turn_end(t) =>
                /\ \A i \in 2..Len(dealer) : opened(dealer[i])
                /\ point(dealer) >= 17
          /\ Dealer_open(t) =>
                \A i \in 1..(t.i - 1) : opened(dealer[i]) ]_vars

(***************************************************************************)
(* Rounds on the shuffled deck: Game.start without nums (the call of main  *)
(* and the New Game button) takes [*range(52)] and shuffles it.  Of the    *)
(* 52! orders the model takes those whose first cards in draw order follow *)
(* the patterns of Decks, each identity used once, over the other          *)
(* identities in ascending order.                                          *)
(***************************************************************************)
\* the identities worth ten, kings first
TenIds == <<12, 25, 38, 51, 11, 24, 37, 50, 10, 23, 36, 49, 9, 22, 35, 48>>

\* how many of the cards before position i of s have the identity s[i]
Earlier(s, i) == Cardinality({j \in 1..(i - 1) : s[j] = s[i]})

\* s with every repeated identity replaced by a card of the same value in
\* another suit (a king also by a queen, a jack or a ten)
Suited(s) ==
    [i \in 1..Len(s) |->
        IF s[i] = 12 THEN TenIds[Earlier(s, i) + 1] ELSE s[i] + 13 * Earlier(s, i)]

Ids(s) == {s[i] : i \in 1..Len(s)}

\* range(52)
Range52 == [i \in 1..52 |-> i - 1]

\* a deck of 52 whose draw order begins with top
Shuffled(top) ==
    SelectSeq(Range52, LAMBDA x : x \notin Ids(top)) \o Reverse(top)

ShuffledDecks ==
    {Shuffled(Suited(p \o d \o Fill(MaxDraws + 1))) : p \in PlayerTops, d \in DealerTops}

\* main: game.start()
StartShuffled ==
    /\ ~started
    /\ \E deck \in ShuffledDecks : start(deck)
    /\ UNCHANGED hvars

NextShuffle ==
    \/ StartShuffled
    \/ Yes
    \/ No
    \/ CardClick
    \/ ActResume
    \/ DealerOpen
    \/ DealerTurnEnd

SpecShuffle == Init /\ [][NextShuffle]_vars

SpecShuffleLive == SpecShuffle /\ WF_vars(DealerResume)

\* the identities of the cards of a hand, in hand order
HandNums(cards) == [i \in 1..Len(cards) |-> cards[i].num]

(***************************************************************************)
(* C13                                                                     *)
(***************************************************************************)
\* C13: in a round on the shuffled deck the identities of the player's
\* hand, the dealer's hand and the deck are pairwise distinct and are
\* exactly 0..51.
C13_CardsConserved ==
    started =>
      LET all == HandNums(player) \o HandNums(dealer) \o nums
      IN  /\ Len(all) = 52
          /\ Ids(all) = 0..51

NewGameDecks ==
    {Shuffled(Suited(p \o d \o Fill(MaxDraws + 1))) :
        p \in {<<5, 12>>, <<12, 0>>}, d \in {<<12, 5>>, <<0, 5>>}}

NewGame == (\E deck \in NewGameDecks : start(deck)) /\ UNCHANGED hvars

NextNewGame ==
    \/ NewGame
    \/ Yes
    \/ No
    \/ CardClick
    \/ ActResume
    \/ DealerOpen
    \/ DealerTurnEnd

SpecNewGame == Init /\ [][NextNewGame]_vars

(***************************************************************************)
(* C14                                                                     *)
(***************************************************************************)
\* C14: whatever the state before, right after Game.start the player holds
\* exactly two face-up cards, the dealer exactly two cards, the first
\* face-up and the second face-down, the deck the 48 other identities,
\* ask_draw is true, the message is "Draw card?" and no dealer turn of the
\* new dealer is in progress.
C14_StartResets ==
    [][ NewGame =>
          /\ Len(player') = 2 /\ opened(player'[1]) /\ opened(player'[2])
          /\ Len(dealer') = 2 /\ opened(dealer'[1]) /\ dealer'[2].class_ = ""
          /\ Len(nums') = 48
          /\ Ids(nums') = (0..51) \ (Ids(HandNums(player')) \cup Ids(HandNums(dealer')))
          /\ Cardinality(Ids(HandNums(player')) \cup Ids(HandNums(dealer'))) = 4
          /\ ask_draw' /\ message' = "Draw card?"
          /\ ~DealerPlaying' ]_vars

\* New Game was clicked while the dealer of the round before was revealing
\* a hand of three cards: the new round is dealt and the old dealer turn is
\* still suspended
C14_Witness ==
    /\ rounds = 2
    /\ ask_draw /\ message = "Draw card?"
    /\ Len(player) = 2 /\ Len(dealer) = 2 /\ Len(nums) = 48
    /\ \E t \in Pending : t.kind = "deal" /\ ~t.cur /\ t.n = 3

(***************************************************************************)
(* C15                                                                     *)
(***************************************************************************)
\* C15: Game.start called while the player decides or the dealer plays
\* leaves the deck, both hands, ask_draw and the message unchanged.
C15_StartMidRoundRejected ==
    [][ NewGame /\ (PlayerDeciding \/ DealerPlaying)
          => UNCHANGED <<nums, player, dealer, ask_draw, message>> ]_vars

(***************************************************************************)
(* C18                                                                     *)
(***************************************************************************)
\* C18: a dealer turn of a Dealer that Game.start has replaced changes
\* nothing of the new round, neither when it reveals a card nor when it
\* ends: ask_draw, the message, both hands and the deck stay as they are.
C18_StaleDealerTurnHarmless ==
    [][ \A t \in Pending :
          t.kind = "deal" /\ ~t.cur /\ (Dealer_open(t) \/ dealer_turn_end(t))
             => UNCHANGED <<ask_draw, message, player, dealer, nums>> ]_vars

(***************************************************************************)
(* Rounds on explicit decks that run out: Game.start(nums=...) with the    *)
(* first cards of a draw order, none to six of them.                       *)
(***************************************************************************)
\* the player's two cards, the dealer's two, and up to two more
ShortOrders ==
    {p \o d \o f : p \in PlayerTops, d \in DealerTops, f \in {<<4, 12>>, <<12, 4>>}}

ShortDecks == {Reverse(SubSeq(o, 1, n)) : o \in ShortOrders, n \in 0..6}

StartShort ==
    /\ ~started
    /\ \E deck \in ShortDecks : start(deck)
    /\ UNCHANGED hvars

NextShort ==
    \/ StartShort
    \/ PlayerTurn
    \/ Act
    \/ Stand
    \/ ActResume
    \/ DealerOpen
    \/ DealerTurnEnd

SpecShort == Init /\ [][NextShort]_vars

(***************************************************************************)
(* C16                                                                     *)
(***************************************************************************)
\* Game.start is called with a deck too short for the deal
StartRaises == \E deck \in ShortDecks : Len(deck) < 4 /\ start(deck)

\* Game.dealer_turn is called and the loop of Dealer.act finds the deck empty
StandRaises ==
    /\ stand
    /\ point(player) <= POINT21
    /\ DrawLoop([k \in 1..Len(dealer) |-> Card(dealer[k].num, "opened")], nums).raised

\* C16: a call of Game.start or Game.dealer_turn that fails on an empty deck
\* leaves the deck, both hands, ask_draw and the message as they were.
C16_NoPartialMutation ==
    [][ StartRaises \/ StandRaises
          => UNCHANGED <<nums, player, dealer, ask_draw, message>> ]_vars

(***************************************************************************)
(* test_game_build of tests/test_game.py: a new Game, start(nums=reversed  *)
(* Case.nums), num_draw times player_turn and asyncio.run(player.act),     *)
(* then asyncio.run(dealer_turn), then the asserts.  asyncio.run returns   *)
(* when its coroutine has ended: the test calls nothing while a coroutine  *)
(* is suspended.  harness is "loop" in the for loop (line 41), "drawn"     *)
(* between lines 42 and 43, "stood" from line 44 on.                       *)
(***************************************************************************)
\* Case.nums of the three cases of the test
TestDecks == { <<12, 0, 11, 0>>, <<12, 6, 11, 0, 8>>, <<12, 5, 11, 0, 8, 4>> }

TestStart ==
    /\ harness = "off"
    /\ \E c \in TestDecks \cup {Reverse(deck) : deck \in Decks} :
          /\ start(Reverse(c))
          /\ case_nums' = c
    /\ harness' = "loop"

TestDraw ==
    /\ harness = "loop"
    /\ tasks = EmptyBag
    /\ player_turn
    /\ harness' = "drawn"
    /\ UNCHANGED case_nums

TestFlip ==
    /\ harness = "drawn"
    /\ act
    /\ harness' = "loop"
    /\ UNCHANGED case_nums

TestStand ==
    /\ harness = "loop"
    /\ tasks = EmptyBag
    /\ stand
    /\ harness' = "stood"
    /\ UNCHANGED case_nums

NextTest ==
    \/ TestStart
    \/ TestDraw
    \/ TestFlip
    \/ TestStand
    \/ ActResume
    \/ DealerOpen
    \/ DealerTurnEnd

SpecTest == Init /\ [][NextTest]_vars

\* the asserts of lines 45-47 are evaluated
TestDone == harness = "stood" /\ tasks = EmptyBag

(***************************************************************************)
(* C2                                                                      *)
(***************************************************************************)
\* the deal as the test's Case words it: of the draw order c the first two
\* cards are the dealer's, the next two the player's, the next n the
\* player's draws, the others the dealer's draws
RefPlayer(c, n) == Owner(SubSeq(c, 3, 4 + n), 4 + n)

RefDealer(c, n) ==
    DrawLoop(Owner(SubSeq(c, 1, 2), 2), Reverse(SubSeq(c, 5 + n, Len(c)))).cards

\* C2: when the test's calls have ended, the player's total and the message
\* are those of that deal (and the dealer's total too when the player is
\* not above 21); the three cases of the test end as the test asserts.
C2_DealOrder ==
    TestDone =>
      LET n == Len(player) - 2
          p == point(RefPlayer(case_nums, n))
          d == point(RefDealer(case_nums, n))
      IN  /\ point(player) = p
          /\ p <= 21 => point(dealer) = d
          /\ message = Rule(p, d)
          /\ case_nums = <<12, 0, 11, 0>> /\ n = 0 =>
                point(player) = 21 /\ point(dealer) = 21 /\ message = "Draw."
          /\ case_nums = <<12, 6, 11, 0, 8>> /\ n = 1 =>
                point(player) = 20 /\ point(dealer) = 17 /\ message = "You win."
          /\ case_nums = <<12, 5, 11, 0, 8, 4>> /\ n = 1 =>
                point(player) = 20 /\ point(dealer) = 21 /\ message = "You loss."

(***************************************************************************)
(* C20                                                                     *)
(***************************************************************************)
\* the first dealer turn of the test, run on the deal of Game.start: the
\* dealer holds the third and fourth card of the draw order and draws after
\* the n cards of the player
FirstTurn(c, n) ==
    DrawLoop(Owner(SubSeq(c, 3, 4), 2), Reverse(SubSeq(c, 5 + n, Len(c))))

\* C20: when the last flip of the test brought the player to 21 or more,
\* Player.act has run the dealer's turn and the test's own dealer_turn is a
\* second run: after it the deck and the dealer's hand are what the first
\* run left (at 21 the hand it drew, revealed; above 21 the two cards
\* dealt, the hole card face-down) and the message is the one of the first
\* run.
C20_DealerTurnIdempotent ==
    TestDone /\ Len(player) > 2 /\ point(SubSeq(player, 1, Len(player) - 1)) < 21 =>
      LET n == Len(player) - 2
          r == FirstTurn(case_nums, n)
      IN  /\ point(player) = 21 =>
                /\ dealer = r.cards
                /\ nums = r.nums
                /\ message = Rule(21, Point_(r.cards))
          /\ point(player) > 21 =>
                /\ dealer = Owner(SubSeq(case_nums, 3, 4), 1)
                /\ nums = Reverse(SubSeq(case_nums, 5 + n, Len(case_nums)))
                /\ message = "You loss."

(***************************************************************************)
(* C19                                                                     *)
(***************************************************************************)
\* C19: at most one card of the player is face-down and it is the last one;
\* when ask_draw is true every card of the player is face-up.
C19_OnlyLastCardFaceDown ==
    started =>
      /\ \A i \in 1..(Len(player) - 1) : opened(player[i])
      /\ ask_draw => opened(player[Len(player)])

(***************************************************************************)
(* Hands built card by card: Owner.add_card and Card.open applied to a     *)
(* hand in any order, to check Owner.point on every hand of up to MaxHand  *)
(* cards.  The hand is kept in the variable player; there is no game.      *)
(***************************************************************************)
\* A(S), A(H), 9(S), K(S)
HandIds == {0, 13, 8, 12}

AddCard ==
    /\ Len(player) < MaxHand
    /\ \E num \in HandIds, class_ \in {"", "hidden"} : player' = add_card(player, num, class_)
    /\ UNCHANGED <<nums, dealer, ask_draw, message, tasks, rounds, harness, case_nums>>

OpenCard ==
    /\ \E i \in 1..Len(player) : player' = [player EXCEPT ![i] = open(@)]
    /\ UNCHANGED <<nums, dealer, ask_draw, message, tasks, rounds, harness, case_nums>>

NextPoint == AddCard \/ OpenCard

SpecPoint == Init /\ [][NextPoint]_vars

(***************************************************************************)
(* C3                                                                      *)
(***************************************************************************)
FaceUp(cards) == {i \in 1..Len(cards) : cards[i].class_ = "opened"}

RECURSIVE BaseSum(_, _)
BaseSum(cards, I) ==
    IF I = {} THEN 0
    ELSE LET i == CHOOSE x \in I : TRUE
         IN  Min(10, Rank(cards[i].num)) + BaseSum(cards, I \ {i})

\* h: the face-up cards at min(10, rank), an ace at 1
Hard(cards) == BaseSum(cards, FaceUp(cards))

HasAceUp(cards) == \E i \in FaceUp(cards) : Rank(cards[i].num) = 1

\* C3: the total of a hand is h, the sum of min(10, rank) over its face-up
\* cards, plus 10 exactly when a face-up card is an ace and h + 10 <= 21;
\* so the total is the same with the cards in the opposite order, face-down
\* cards count nothing, and the total is at most 21 when h is.
C3_PointClosedForm ==
    /\ point(player) =
          Hard(player) + (IF HasAceUp(player) /\ Hard(player) + 10 <= 21 THEN 10 ELSE 0)
    /\ point(Reverse(player)) = point(player)
    /\ Hard(player) <= 21 => point(player) <= 21

\* a hand of an ace, a king and a face-down nine: the ace counts 11, the total is 21
C3_Witness ==
    /\ Len(player) = 3
    /\ HasAceUp(player)
    /\ \E i \in 1..3 : player[i].class_ # "opened" /\ Rank(player[i].num) = 9
    /\ Hard(player) = 11
    /\ point(player) = 21

====
